---- MODULE Spec2Model ----
(***************************************************************************)
(* Model of the tool-call audit interceptor SimpleAuditToolNode            *)
(* (src/src/deepagents/audit_tool_node.py), of the interactive session     *)
(* (src/src/deepagents/util) and of RedisClient                            *)
(* (src/src/client/redis_client.py), each under its own specification.     *)
(*                                                                         *)
(* Python values are tagged records [t |-> tag, v |-> tokens]; a text is   *)
(* the sequence of its tokens, so that concatenation, prefixes and slices  *)
(* are sequence operations.  The file system is a function from paths      *)
(* (token sequences) to the sequence of JSON documents a file holds: a     *)
(* file opened with 'w' holds one document, the summary file opened with   *)
(* 'a' holds one per appended line.                                        *)
(***************************************************************************)
EXTENDS Integers, Sequences, FiniteSets, TLC

(* ---------------------------- bounds ----------------------------------- *)
MaxCalls == 2          \* invocations started in one behaviour
MaxTime == 2           \* clock ticks that pass in one behaviour
MaxInterceptors == 2   \* interceptors constructed on the audit directory
MaxTurns == 2          \* inputs the interactive loop reads
MaxChunks == 2         \* chunks the agent streams in one turn
MaxOps == 3            \* operations on one RedisClient
TicksPerSecond == 2    \* clock resolution: ticks in one wall-clock second

Slots == {1, 2}        \* call frames that may be live at the same time

(* ---------------------------- Python values ---------------------------- *)
None == [t |-> "none", v |-> <<>>]
Text(s) == [t |-> "str", v |-> s]
PyList(s) == [t |-> "list", v |-> s]
PyInt(s) == [t |-> "int", v |-> s]
PyDict(s) == [t |-> "dict", v |-> s]
PyObject(s) == [t |-> "obj", v |-> s]

\* bool(x) of a plain value
Truthy(x) ==
    CASE x.t = "none" -> FALSE
      [] x.t = "int" -> x.v # <<"0">>
      [] x.t = "obj" -> TRUE
      [] OTHER -> x.v # <<>>

\* json.dump(..., default=str): a value json cannot encode becomes its str()
JsonDefaultStr(x) == IF x.t = "obj" THEN Text(x.v) ELSE x

\* an optional key of a mapping: <<>> when absent, <<value>> when present
Absent == <<>>
Some(x) == <<x>>
Get(opt, default) == IF opt = Absent THEN default ELSE opt[1]

(* ---------------------------- errors ----------------------------------- *)
\* isexc: the error is an instance of Exception (asyncio.CancelledError and
\* KeyboardInterrupt are BaseExceptions only).
Error(type, msg, isexc) == [type |-> type, msg |-> msg, isexc |-> isexc]
NoError == Error("", <<>>, TRUE)
AttributeError == Error("AttributeError", <<"no attribute 'get'">>, TRUE)
UnboundLocalError == Error("UnboundLocalError", <<"output_content">>, TRUE)
FileNotFoundError == Error("FileNotFoundError", <<"No such file or directory">>, TRUE)
TypeError == Error("TypeError", <<"not subscriptable">>, TRUE)
OSError == Error("OSError", <<"No space left on device">>, TRUE)
FileExistsError == Error("FileExistsError", <<"File exists">>, TRUE)

\* str(e): the message; KeyError gives the repr of its key
StrOf(e) == IF e.type = "KeyError" THEN <<"'">> \o e.msg \o <<"'">> ELSE e.msg

(* ---------------------------- clock ------------------------------------ *)
SecondsPerDay == 86400
Second(t) == t \div TicksPerSecond
TwoDigits(n) == IF n < 10 THEN "0" \o ToString(n) ELSE ToString(n)
\* timestamp.strftime('%H%M%S')
HHMMSS(t) ==
    LET s == Second(t) % SecondsPerDay
    IN TwoDigits(s \div 3600) \o TwoDigits((s % 3600) \div 60) \o TwoDigits(s % 60)
\* datetime.now().strftime('%Y%m%d'), the clock counting from 1970-01-01
YYYYMMDD(t) == "197001" \o TwoDigits(1 + Second(t) \div SecondsPerDay)

(* ---------------------------- paths ------------------------------------ *)
WorkspaceAuditDir == <<"/", "home", "/", "workspace", "/", "audit_logs">>
OtherAuditDir == <<"/", "var", "/", "audit">>
AuditDirs == {WorkspaceAuditDir, OtherAuditDir}

Root == <<"/">>
RECURSIVE LastSlash(_, _)
LastSlash(p, i) == IF i = 0 THEN 0 ELSE IF p[i] = "/" THEN i ELSE LastSlash(p, i - 1)
\* Path(p).parent
Parent(p) ==
    LET i == LastSlash(p, Len(p))
    IN IF i <= 1 THEN SubSeq(p, 1, i) ELSE SubSeq(p, 1, i - 1)

\* a directory with the directories above it
RECURSIVE WithParents(_)
WithParents(p) == IF Parent(p) = p \/ p = <<>> THEN {p} ELSE {p} \cup WithParents(Parent(p))

\* the slip of a mkdir without exist_ok
mkdirExclusive(ds, fs, p) ==
    IF p \in DOMAIN fs \/ p \in ds THEN [dirs |-> ds, raised |-> FileExistsError]
    ELSE [dirs |-> ds \cup WithParents(p), raised |-> NoError]

\* Path.mkdir(parents=True, exist_ok=True): the directories afterwards, and the
\* error raised (a file in the place of the directory is not tolerated)
mkdir(ds, fs, p) ==
    IF p \in DOMAIN fs THEN [dirs |-> ds, raised |-> FileExistsError]
    ELSE [dirs |-> ds \cup WithParents(p), raised |-> NoError]

(* ---------------------------- tool-call payloads ----------------------- *)
\* A mapping that is read as a tool call: each of its keys may be absent.
ToolCall(name, id, args) == [t |-> "dict", name |-> name, id |-> id, args |-> args]
EmptyMapping == ToolCall(Absent, Absent, Absent)
\* An element that is not a mapping (a str, an int): it has no .get
NotAMapping == [t |-> "str", name |-> Absent, id |-> Absent, args |-> Absent]

\* The payload handed to invoke/ainvoke:
\*   t = "list":  a sequence of tool calls (items)
\*   t = "dict":  a mapping; haskey says that it has the key "tool_calls"
\*                (items is that sequence), call is the mapping itself read
\*                as a tool call
\*   t = "other": neither (None, a number, a str)
ListInput(items) == [t |-> "list", haskey |-> FALSE, items |-> items, call |-> EmptyMapping]
ToolCallsInput(items) == [t |-> "dict", haskey |-> TRUE, items |-> items, call |-> EmptyMapping]
MappingInput(call) == [t |-> "dict", haskey |-> FALSE, items |-> <<>>, call |-> call]
OtherInput == [t |-> "other", haskey |-> FALSE, items |-> <<>>, call |-> EmptyMapping]

\* the tool calls a payload carries
CallsOf(input) ==
    IF input.t = "list" \/ (input.t = "dict" /\ input.haskey) THEN input.items
    ELSE IF input.t = "dict" /\ input.call # EmptyMapping THEN <<input.call>>
    ELSE <<>>

Search == <<"internet_search">>
Fetch == <<"fetch">>
Escaping == <<"..", "/", "x">>
Unknown == <<"unknown">>
Abc123 == Text(<<"a", "b", "c", "1", "2", "3">>)
Xyz == Text(<<"x", "y", "z">>)
QueryArgs == PyDict(<<"query", "ai", "max_results", "3">>)
UrlArgs == PyDict(<<"url", "u">>)
EmptyArgs == PyDict(<<>>)

SearchCall == ToolCall(Some(Search), Some(Abc123), Some(QueryArgs))
FetchCall == ToolCall(Some(Fetch), Some(Xyz), Some(UrlArgs))

\* str(uuid.uuid4()): 36 characters, hyphens at 9, 14, 19 and 24
Uuid4Str(c) == [i \in 1..36 |-> IF i \in {9, 14, 19, 24} THEN "-" ELSE c]
Uuid4Strs == {Uuid4Str("e"), Uuid4Str("f")}
\* the slip of slicing one character too many
PrefixThrough(s, n) == SubSeq(s, 1, IF Len(s) < n + 1 THEN Len(s) ELSE n + 1)
\* s[:n]
Prefix(s, n) == SubSeq(s, 1, IF Len(s) < n THEN Len(s) ELSE n)

(* ---------------------------- tool results ----------------------------- *)
\* What the Tool Executor returns:
\*   shape = "msg":   a ToolMessage with a content
\*   shape = "dict":  a mapping; hasmessages says that it has the key
\*                    "messages" (messages is that sequence, each element a
\*                    ToolMessage or not), other stands for its other keys
\*   shape = "value": any other value
Message(ismsg, content) == [ismsg |-> ismsg, content |-> content]
ToolMessage(content) ==
    [shape |-> "msg", content |-> content, hasmessages |-> FALSE,
     messages |-> <<>>, other |-> <<>>, value |-> None]
Mapping(hasmessages, messages, other) ==
    [shape |-> "dict", content |-> None, hasmessages |-> hasmessages,
     messages |-> messages, other |-> other, value |-> None]
Value(x) ==
    [shape |-> "value", content |-> None, hasmessages |-> FALSE,
     messages |-> <<>>, other |-> <<>>, value |-> x]
NoResult == Value(None)

\* bool(result)
ResultTruthy(r) ==
    CASE r.shape = "msg" -> TRUE
      [] r.shape = "dict" -> r.hasmessages \/ r.other # <<>>
      [] OTHER -> Truthy(r.value)

\* the result as a plain value, where the code uses the result itself
AsValue(r) == IF r.shape = "dict" THEN PyDict(r.other) ELSE r.value

(* ---------------------------- pure functions of the node -------------- *)
\* the slip of taking the last tool call of a sequence
SelectLastToolCall(input) ==
    IF input.t = "list" /\ Len(input.items) > 0 THEN input.items[Len(input.items)]
    ELSE IF input.t = "dict" /\ input.haskey
         THEN (IF Len(input.items) > 0 THEN input.items[Len(input.items)] ELSE EmptyMapping)
    ELSE IF input.t = "dict" THEN input.call
    ELSE EmptyMapping

\* invoke/ainvoke: the tool call selected from the payload
SelectToolCall(input) ==
    IF input.t = "list" /\ Len(input.items) > 0 THEN input.items[1]
    ELSE IF input.t = "dict" /\ input.haskey
         THEN (IF Len(input.items) > 0 THEN input.items[1] ELSE EmptyMapping)
    ELSE IF input.t = "dict" THEN input.call
    ELSE EmptyMapping

\* tool_call.get raises AttributeError when the selected value has no .get
HasGet(tool_call) == tool_call.t = "dict"

\* the slip of a file name that also carries the fraction of the second
_generate_audit_file_path_fraction(audit_dir, tool_name, t) ==
    audit_dir \o <<"/">> \o <<HHMMSS(t) \o ToString(t % TicksPerSecond), "_">>
              \o tool_name \o <<".json">>

_generate_audit_file_path(audit_dir, tool_name, t) ==
    audit_dir \o <<"/">> \o <<HHMMSS(t), "_">> \o tool_name \o <<".json">>

\* the two literals of the source, written in ASCII
PathLabel == "file path of the current data relative to workspace (reference path):"
Placeholder == "no definite workspace path for now"

\* `.*` from position i: the last position before the next newline
RECURSIVE LineEnd(_, _)
LineEnd(p, i) ==
    IF i > Len(p) THEN Len(p) ELSE IF p[i] = "\n" THEN i - 1 ELSE LineEnd(p, i + 1)
\* `$` after position e: the end of the string, or before one last newline
AtDollar(p, e) == e = Len(p) \/ (e = Len(p) - 1 /\ p[Len(p)] = "\n")
\* re.search(r'workspace.*$', input_string): the leftmost occurrence of the
\* marker from which the rest of the line reaches `$`; 0 when there is none
RECURSIVE re_search(_, _)
re_search(p, i) ==
    IF i > Len(p) THEN 0
    ELSE IF p[i] = "workspace" /\ AtDollar(p, LineEnd(p, i + 1)) THEN i
    ELSE re_search(p, i + 1)
extract_from_workspace(input_string) ==
    LET i == re_search(input_string, 1)
    IN IF i = 0 THEN <<Placeholder>>
       ELSE SubSeq(input_string, i, LineEnd(input_string, i + 1))

\* the slip of a rewrite that also renders content that is not text
_attach_audit_file_path_any(result, audit_file_path) ==
    IF result.t = "none" THEN result
    ELSE Text(<<PathLabel>> \o extract_from_workspace(audit_file_path) \o <<"\n">> \o result.v)

_attach_audit_file_path(result, audit_file_path) ==
    IF result.t = "none" THEN result
    ELSE IF result.t = "str"
         THEN Text(<<PathLabel>> \o extract_from_workspace(audit_file_path) \o <<"\n">> \o result.v)
    ELSE result

\* the slip of assigning the content to every message of the sequence
SetEveryContent(messages, content) ==
    [i \in DOMAIN messages |-> [messages[i] EXCEPT !.content = content]]

\* Assigning messages[0].content
SetFirstContent(messages, content) ==
    [messages EXCEPT ![1] = [@ EXCEPT !.content = content]]

\* Returns the output_content and the result object as the call leaves it.
_extract_output_content_and_add_audit_path(result, audit_file_path) ==
    IF ~ResultTruthy(result) THEN [output_content |-> None, result |-> result]
    ELSE IF result.shape = "msg"
         THEN [output_content |-> result.content,
               result |-> [result EXCEPT !.content =
                              _attach_audit_file_path(result.content, audit_file_path)]]
    ELSE IF result.shape = "dict" /\ result.hasmessages
         THEN IF Len(result.messages) > 0 /\ result.messages[1].ismsg
              THEN [output_content |-> result.messages[1].content,
                    result |-> [result EXCEPT !.messages =
                                   SetFirstContent(result.messages,
                                       _attach_audit_file_path(result.messages[1].content,
                                                               audit_file_path))]]
              ELSE [output_content |-> None, result |-> result]
    ELSE [output_content |-> _attach_audit_file_path(AsValue(result), audit_file_path),
          result |-> result]

(* ---------------------------- audit records and files ------------------ *)
StatusOf(error) == IF Truthy(error) THEN "failed" ELSE "success"

AuditRecord(tool_call_id, tool_name, timestamp, execution_time_ms, input_data, output_data, error) ==
    [tool_call_id |-> JsonDefaultStr(tool_call_id),
     tool_name |-> tool_name,
     timestamp |-> timestamp,
     execution_time_ms |-> execution_time_ms,
     input |-> JsonDefaultStr(input_data),
     output |-> JsonDefaultStr(output_data),
     error |-> error,
     status |-> StatusOf(error)]
NoRecord == [tool_call_id |-> None, tool_name |-> <<>>, timestamp |-> 0,
             execution_time_ms |-> 0, input |-> None, output |-> None,
             error |-> None, status |-> ""]

NoFiles == [p \in {} |-> <<>>]
\* the slip of opening the per-call file with 'a': earlier documents stay
WriteFileKeeping(fs, path, doc) ==
    [p \in DOMAIN fs \cup {path} |->
        IF p = path THEN (IF path \in DOMAIN fs THEN Append(fs[path], doc) ELSE <<doc>>)
        ELSE fs[p]]
\* open(path, 'w') and dump one document
WriteFile(fs, path, doc) == [p \in DOMAIN fs \cup {path} |-> IF p = path THEN <<doc>> ELSE fs[p]]
\* open(path, 'a') and write one line
AppendLine(fs, path, doc) ==
    [p \in DOMAIN fs \cup {path} |->
        IF p = path THEN (IF path \in DOMAIN fs THEN Append(fs[path], doc) ELSE <<doc>>)
        ELSE fs[p]]

\* the slip of an open that makes the missing directories of the path
CanOpenAnywhere(ds, path) == TRUE

\* open() for writing needs the directory of the file
CanOpen(ds, path) == Parent(path) \in ds

SummaryPath(filepath, t) == Parent(filepath) \o <<"/", "summary_", YYYYMMDD(t), ".jsonl">>

\* What the storage does to one _write_audit_log: nothing, it fails the
\* opening of the per-call file, or it fails (or the process is interrupted)
\* after the per-call file is written and before the summary line is.
Faults == {"none", "write", "append"}

\* the slip of a write that undoes the per-call file when the append fails
_write_audit_log_transactional(fs, ds, record, audit_file_path, t, fault) ==
    IF ~CanOpen(ds, audit_file_path)
    THEN [files |-> fs, raised |-> FileNotFoundError, written |-> 0, appended |-> 0]
    ELSE IF fault \in {"write", "append"}
    THEN [files |-> fs, raised |-> OSError, written |-> 0, appended |-> 0]
    ELSE [files |-> AppendLine(WriteFile(fs, audit_file_path, record),
                               SummaryPath(audit_file_path, t), record),
          raised |-> NoError, written |-> 1, appended |-> 1]

\* The files after _write_audit_log, and the error it raises (NoError if none)
_write_audit_log(fs, ds, record, audit_file_path, t, fault) ==
    IF ~CanOpen(ds, audit_file_path)
    THEN [files |-> fs, raised |-> FileNotFoundError, written |-> 0, appended |-> 0]
    ELSE IF fault = "write"
    THEN [files |-> fs, raised |-> OSError, written |-> 0, appended |-> 0]
    ELSE IF fault = "append"
    THEN [files |-> WriteFile(fs, audit_file_path, record),
          raised |-> OSError, written |-> 1, appended |-> 0]
    ELSE [files |-> AppendLine(WriteFile(fs, audit_file_path, record),
                               SummaryPath(audit_file_path, t), record),
          raised |-> NoError, written |-> 1, appended |-> 1]

(* ---------------------------- inputs of the model ---------------------- *)
Modes == {"invoke", "ainvoke"}

Inputs ==
    {MappingInput(SearchCall),
     MappingInput(EmptyMapping),
     MappingInput(ToolCall(Some(Search), Some(None), Some(QueryArgs))),
     MappingInput(ToolCall(Some(Escaping), Some(Xyz), Absent)),
     ListInput(<<SearchCall, FetchCall>>),
     ListInput(<<NotAMapping>>),
     ListInput(<<>>),
     ToolCallsInput(<<FetchCall, SearchCall>>),
     ToolCallsInput(<<>>),
     OtherInput}

FiveResults == Text(<<"5 results found">>)
Results ==
    {Value(FiveResults),
     Value(Text(<<>>)),
     Value(None),
     Value(PyObject(<<"Command()">>)),
     ToolMessage(Text(<<"ok">>)),
     ToolMessage(PyList(<<"block">>)),
     Mapping(TRUE, <<Message(TRUE, Text(<<"ok">>)), Message(TRUE, Text(<<"second">>))>>, <<"files">>),
     Mapping(TRUE, <<Message(TRUE, PyList(<<"block">>)), Message(FALSE, Text(<<"ai">>))>>, <<>>),
     Mapping(TRUE, <<Message(FALSE, Text(<<"ai">>))>>, <<>>),
     Mapping(TRUE, <<>>, <<>>),
     Mapping(FALSE, <<>>, <<"k">>)}

UpstreamTimeout == Error("TimeoutError", <<"upstream timeout">>, TRUE)
Errors ==
    {UpstreamTimeout,
     Error("ValueError", <<>>, TRUE),
     Error("KeyError", <<"k">>, TRUE),
     Error("CancelledError", <<>>, FALSE)}

\* What the Tool Executor does with the payload: it returns or it raises.
Returns(result) == [kind |-> "return", result |-> result, error |-> NoError]
Raises(e) == [kind |-> "raise", result |-> NoResult, error |-> e]
Outcomes == {Returns(r) : r \in Results} \cup {Raises(e) : e \in Errors}

\* The payload and the tool of one behaviour: every payload with a tool that
\* returns a plain string or times out, and one payload with every outcome.
Scenarios ==
    (Inputs \X {Returns(Value(FiveResults)), Raises(UpstreamTimeout)})
    \cup ({MappingInput(SearchCall)} \X Outcomes)

\* The storage of one behaviour: sound, or faulty for the plain tool call.
PlainScenarios ==
    {MappingInput(SearchCall)} \X {Returns(Value(FiveResults)), Raises(UpstreamTimeout)}
Storages(sc) == IF sc \in PlainScenarios THEN {"sound", "faulty"} ELSE {"sound"}
\* The audit directory of one behaviour: under the workspace, or elsewhere
\* for the plain tool call.
AuditDirsOf(sc) == IF sc \in PlainScenarios THEN AuditDirs ELSE {WorkspaceAuditDir}

StartTimes == {0}

(* ---------------------------- state ------------------------------------ *)
VARIABLES
    now,        \* the wall clock, in ticks
    start,      \* the clock at the beginning of the behaviour
    calls,      \* invocations started so far
    audit_dir,  \* self.audit_dir
    dirs,       \* the directories that exist
    files,      \* the files that exist, with their documents
    inv,        \* the call frames of invoke/ainvoke
    payload,    \* the tool-call payload the caller passes
    executor,   \* what the Tool Executor does with it
    storage,    \* whether the storage may fail a write
    interceptors, \* SimpleAuditToolNode objects constructed on audit_dir
    init_raised,  \* the error of the last construction
    rw_content,   \* _attach_audit_file_path: the content passed
    rw_path,      \* the audit file path passed to the two static methods
    rw_attached,  \* what _attach_audit_file_path returned
    rw_extracted, \* what extract_from_workspace returned
    persisted_state, \* interactive_loop: the state kept between turns
    loop_pc,         \* reading an input, streaming a turn, or ended
    loop_raised,     \* the error that left interactive_loop
    user_input,      \* the input read last
    turns,           \* inputs read so far
    agent_input,     \* what the agent was run with last
    agent_runs,      \* runs of the agent so far
    agent_stream,    \* this turn's agent.astream: open, ended or raised
    chunks,          \* the chunks it has produced
    events,          \* the events stream_with_progress has yielded
    step_counter,    \* local_async_streaming: step events handled
    last_result,     \* local_async_streaming: the event consumed last
    returned_result, \* what local_async_streaming returned to the loop
    _client,         \* RedisClient._client: None or a redis.Redis object
    rc_built,        \* RedisClient(): not yet constructed, constructed, failed
    rc_closed,       \* close() has returned and no operation has run since
    rc_ops,          \* operations so far
    rc_connects,     \* calls of _connect so far
    rc_last,         \* the operation that ended last, with its outcome
    history     \* the calls that went through the finally block, in order

vars == <<now, start, calls, audit_dir, dirs, files, inv, payload, executor,
          storage, interceptors, init_raised, history,
          rw_content, rw_path, rw_attached, rw_extracted,
          persisted_state, loop_pc, loop_raised, user_input, turns, agent_input,
          agent_runs, agent_stream, chunks, events, step_counter, last_result,
          returned_result, _client, rc_built, rc_closed, rc_ops, rc_connects,
          rc_last>>

auditVars == <<now, start, calls, audit_dir, dirs, files, inv, payload, executor,
               storage, interceptors, init_raised, history>>
rewriteVars == <<rw_content, rw_path, rw_attached, rw_extracted>>
loopVars == <<persisted_state, loop_pc, loop_raised, user_input, turns,
              agent_input, agent_runs>>
streamVars == <<agent_stream, chunks, events, step_counter, last_result,
                returned_result>>
sessionVars == <<loopVars, streamVars>>
\* the variables the interceptor's calls leave alone
redisVars == <<_client, rc_built, rc_closed, rc_ops, rc_connects, rc_last>>
otherVars == <<rewriteVars, sessionVars, redisVars>>

\* a static method that has not returned yet
NotYet == [t |-> "notyet", v |-> <<>>]
RewriteIdle ==
    /\ rw_content = None /\ rw_path = <<>>
    /\ rw_attached = NotYet /\ rw_extracted = NotYet

(* ---------------------------- the Redis client ------------------------- *)
PyBool(b) == [t |-> "bool", v |-> <<b>>]
True == PyBool("True")
False == PyBool("False")
\* redis.RedisError, as a refused connection raises it
RedisError == Error("ConnectionError", <<"Connection refused">>, TRUE)

\* an operation of the client that has ended: what it returned or raised,
\* whether redis raised in it, whether it called _connect, and whether it
\* was the first operation after close() returned
Ended(kind, name, value, raised, failed, connected, after_close) ==
    [kind |-> kind, name |-> name, value |-> value, raised |-> raised,
     failed |-> failed, connected |-> connected, after_close |-> after_close]
NoOperation == Ended("none", "", None, NoError, FALSE, FALSE, FALSE)

RedisIdle ==
    /\ _client = "None" /\ rc_built = "no" /\ rc_closed = FALSE
    /\ rc_ops = 0 /\ rc_connects = 0 /\ rc_last = NoOperation

(* ---------------------------- the interactive session ------------------ *)
\* HumanMessage(content=...) and the messages of the agent
HumanMessage(text) == [role |-> "human", content |-> Text(text)]
AIMessage(c) == [role |-> "ai", content |-> c]

\* build_initial_state()
build_initial_state ==
    [messages |-> PyList(<<>>), files |-> PyDict(<<>>), todos |-> PyList(<<>>)]

\* the state a node reports in a chunk: every key is optional
NodeState(msgs, fs, ts) == [t |-> "dict", messages |-> msgs, files |-> fs, todos |-> ts]
\* a chunk of agent.astream: a mapping from one node to its state, or a
\* value that is not a mapping
Chunk(node, state) == [t |-> "dict", node |-> node, state |-> state]
NotAMappingChunk == [t |-> "str", node |-> "", state |-> None]

\* the events of stream_with_progress (the timestamp is left out)
NoData == [t |-> "none", node |-> "", state |-> None]
StepEvent(chunk) == [type |-> "step", data |-> chunk, error |-> <<>>, exception_type |-> ""]
ErrorEvent(e) == [type |-> "error", data |-> NoData, error |-> StrOf(e),
                  exception_type |-> e.type]
\* last_result = None
NoEvent == [type |-> "none", data |-> NoData, error |-> <<>>, exception_type |-> ""]
\* local_async_streaming has not returned
Streaming == [type |-> "streaming", data |-> NoData, error |-> <<>>, exception_type |-> ""]

AgentOpen == [status |-> "open", error |-> NoError]
NoAgentInput == [messages |-> <<>>, files |-> None, todos |-> None]

SessionIdle ==
    /\ persisted_state = build_initial_state
    /\ loop_pc = "ended" /\ loop_raised = NoError
    /\ user_input = <<>> /\ turns = 0
    /\ agent_input = NoAgentInput /\ agent_runs = 0
    /\ agent_stream = AgentOpen /\ chunks = <<>> /\ events = <<>>
    /\ step_counter = 0 /\ last_result = NoEvent /\ returned_result = NoEvent

\* a local variable that may not be bound yet
Unbound == [bound |-> FALSE, val |-> None]
Bound(x) == [bound |-> TRUE, val |-> x]

IdleFrame ==
    [pc |-> "idle", mode |-> "invoke", input |-> OtherInput,
     tool_name |-> <<>>, tool_call_id |-> None, tool_args |-> None,
     tool_call |-> EmptyMapping,
     audit_file_path |-> <<>>, start_time |-> 0,
     delegated |-> 0, delegated_input |-> OtherInput,
     attempts |-> 0, fault |-> "none", write_error |-> NoError,
     tool |-> "none", tool_result |-> NoResult, tool_error |-> NoError, executed |-> <<>>,
     result |-> NoResult,
     outcome |-> "none", raised |-> NoError,
     written |-> 0, appended |-> 0, record |-> NoRecord]

Init ==
    /\ start \in StartTimes
    /\ now = start
    /\ calls = 0
    /\ dirs = {Root}
    /\ files = NoFiles
    /\ inv = [s \in Slots |-> IdleFrame]
    /\ \E sc \in Scenarios :
          /\ payload = sc[1] /\ executor = sc[2]
          /\ storage \in Storages(sc)
          /\ audit_dir \in AuditDirsOf(sc)
    /\ interceptors = 0
    /\ init_raised = NoError
    /\ history = <<>>
    /\ RewriteIdle
    /\ SessionIdle
    /\ RedisIdle

(* ---------------------------- actions ---------------------------------- *)
\* SimpleAuditToolNode(tools, audit_dir=audit_dir): the audit directory is
\* made with its parents.
Construct ==
    /\ interceptors < MaxInterceptors
    /\ LET m == mkdir(dirs, files, audit_dir)
       IN /\ dirs' = m.dirs
          /\ init_raised' = m.raised
          /\ interceptors' = IF m.raised = NoError THEN interceptors + 1 ELSE interceptors
    /\ UNCHANGED <<now, start, calls, audit_dir, files, inv, payload, executor,
                   storage, history>>
    /\ UNCHANGED otherVars

\* the slip of writing the audit file when the call starts
BeginWritesFirst(s, mode, input, uuid) ==
    LET tool_call == SelectToolCall(input)
        tool_name == Get(tool_call.name, Unknown)
        path == _generate_audit_file_path(audit_dir, tool_name, now)
    IN
    /\ input = payload
    /\ interceptors > 0
    /\ inv[s].pc = "idle"
    /\ \A r \in Slots : r < s => inv[r].pc # "idle"
    /\ calls < MaxCalls
    /\ calls' = calls + 1
    /\ HasGet(tool_call)
    /\ inv' = [inv EXCEPT ![s] =
            [IdleFrame EXCEPT !.pc = "running", !.mode = mode, !.input = input,
                              !.tool_call = tool_call,
                              !.delegated = 1, !.delegated_input = input,
                              !.tool_name = tool_name,
                              !.tool_call_id = Get(tool_call.id, Text(Prefix(uuid, 8))),
                              !.tool_args = Get(tool_call.args, EmptyArgs),
                              !.audit_file_path = path,
                              !.start_time = now,
                              !.written = 1]]
    /\ files' = WriteFile(files, path, NoRecord)
    /\ UNCHANGED <<now, start, audit_dir, dirs, payload, executor,
                   storage, interceptors, init_raised, history>>
    /\ UNCHANGED otherVars

\* invoke/ainvoke up to the delegation: the tool call is selected, name, id
\* and arguments are read and the audit path is generated.  A selected value
\* without .get ends the call with AttributeError.
Begin(s, mode, input, uuid) ==
    LET tool_call == SelectToolCall(input) IN
    /\ input = payload
    /\ interceptors > 0
    /\ inv[s].pc = "idle"
    /\ \A r \in Slots : r < s => inv[r].pc # "idle"
    /\ calls < MaxCalls
    /\ calls' = calls + 1
    /\ IF ~HasGet(tool_call)
       THEN inv' = [inv EXCEPT ![s] =
                [IdleFrame EXCEPT !.pc = "done", !.mode = mode, !.input = input,
                                  !.tool_call = tool_call,
                                  !.outcome = "raised", !.raised = AttributeError]]
       ELSE LET tool_name == Get(tool_call.name, Unknown)
                tool_call_id == Get(tool_call.id, Text(Prefix(uuid, 8)))
                tool_args == Get(tool_call.args, EmptyArgs)
            IN inv' = [inv EXCEPT ![s] =
                [IdleFrame EXCEPT !.pc = "running", !.mode = mode, !.input = input,
                                  !.tool_call = tool_call,
                                  !.delegated = 1, !.delegated_input = input,
                                  !.tool_name = tool_name,
                                  !.tool_call_id = tool_call_id,
                                  !.tool_args = tool_args,
                                  !.audit_file_path =
                                      _generate_audit_file_path(audit_dir, tool_name, now),
                                  !.start_time = now]]
    /\ UNCHANGED <<now, start, audit_dir, dirs, files, payload, executor,
                   storage, interceptors, init_raised, history>>
    /\ UNCHANGED otherVars

\* output_content before the try block: ainvoke binds it to None, invoke
\* leaves it unbound.
InitialOutputContent(mode) == IF mode = "ainvoke" THEN Bound(None) ELSE Unbound

\* tool_call_id[:8] in the status line needs a subscriptable id
CanPrint(tool_call_id) == tool_call_id.t \in {"str", "list"}

\* what the history keeps of a call
Entry(frame) ==
    [tool_call_id |-> frame.tool_call_id, tool_name |-> frame.tool_name,
     start_time |-> frame.start_time, audit_file_path |-> frame.audit_file_path,
     tool |-> frame.tool, written |-> frame.written, appended |-> frame.appended,
     record |-> frame.record, interceptors |-> interceptors]

\* the slip of a finally block that swallows the error of the write
FinallySwallowing(s, frame, output_content, error_msg, pending, fault) ==
    LET record == AuditRecord(frame.tool_call_id, frame.tool_name, now,
                              now - frame.start_time, frame.tool_args,
                              output_content.val, error_msg)
        w == _write_audit_log(files, dirs, record, frame.audit_file_path, now, fault)
        raised == IF ~output_content.bound THEN UnboundLocalError
                  ELSE IF ~CanPrint(frame.tool_call_id) THEN TypeError
                  ELSE pending
        after == [frame EXCEPT !.pc = "done",
                            !.outcome = IF raised = NoError THEN "returned" ELSE "raised",
                            !.raised = raised,
                            !.attempts = IF output_content.bound THEN 1 ELSE 0,
                            !.fault = IF output_content.bound THEN fault ELSE "none",
                            !.write_error = IF output_content.bound THEN w.raised ELSE NoError,
                            !.written = IF output_content.bound THEN w.written ELSE 0,
                            !.appended = IF output_content.bound THEN w.appended ELSE 0,
                            !.record = IF output_content.bound /\ w.written = 1
                                       THEN record ELSE NoRecord]
    IN /\ storage = "sound" => fault = "none"
       /\ files' = IF output_content.bound THEN w.files ELSE files
       /\ inv' = [inv EXCEPT ![s] = after]
       /\ history' = Append(history, Entry(after))

\* The finally block: the record is built and written and the status line is
\* printed; an error raised here replaces the pending return or raise.
Finally(s, frame, output_content, error_msg, pending, fault) ==
    LET record == AuditRecord(frame.tool_call_id, frame.tool_name, now,
                              now - frame.start_time, frame.tool_args,
                              output_content.val, error_msg)
        w == _write_audit_log(files, dirs, record, frame.audit_file_path, now, fault)
        raised == IF ~output_content.bound THEN UnboundLocalError
                  ELSE IF w.raised # NoError THEN w.raised
                  ELSE IF ~CanPrint(frame.tool_call_id) THEN TypeError
                  ELSE pending
        after == [frame EXCEPT !.pc = "done",
                            !.outcome = IF raised = NoError THEN "returned" ELSE "raised",
                            !.raised = raised,
                            !.attempts = IF output_content.bound THEN 1 ELSE 0,
                            !.fault = IF output_content.bound THEN fault ELSE "none",
                            !.write_error = IF output_content.bound THEN w.raised ELSE NoError,
                            !.written = IF output_content.bound THEN w.written ELSE 0,
                            !.appended = IF output_content.bound THEN w.appended ELSE 0,
                            !.record = IF output_content.bound /\ w.written = 1
                                       THEN record ELSE NoRecord]
    IN /\ storage = "sound" => fault = "none"
       /\ files' = IF output_content.bound THEN w.files ELSE files
       /\ inv' = [inv EXCEPT ![s] = after]
       /\ history' = Append(history, Entry(after))

\* The Tool Executor returns result: the try block runs to `return result`.
ToolReturn(s, result, fault) ==
    /\ executor = Returns(result)
    /\ inv[s].pc = "running"
    /\ LET ext == _extract_output_content_and_add_audit_path(result, inv[s].audit_file_path)
           frame == [inv[s] EXCEPT !.tool = "returned", !.tool_result = result,
                                   !.executed = CallsOf(inv[s].input),
                                   !.result = ext.result]
       IN Finally(s, frame, Bound(ext.output_content), None, NoError, fault)
    /\ UNCHANGED <<now, start, calls, audit_dir, dirs, payload, executor,
                   storage, interceptors, init_raised>>
    /\ UNCHANGED otherVars

\* The Tool Executor raises e: `except Exception` records str(e) and re-raises.
ToolRaise(s, e, fault) ==
    /\ executor = Raises(e)
    /\ inv[s].pc = "running"
    /\ LET frame == [inv[s] EXCEPT !.tool = "raised", !.tool_error = e]
           error_msg == IF e.isexc THEN Text(StrOf(e)) ELSE None
       IN Finally(s, frame, InitialOutputContent(inv[s].mode), error_msg, e, fault)
    /\ UNCHANGED <<now, start, calls, audit_dir, dirs, payload, executor,
                   storage, interceptors, init_raised>>
    /\ UNCHANGED otherVars

\* The caller takes the outcome; the frame is gone.
Release(s) ==
    /\ inv[s].pc = "done"
    /\ inv' = [inv EXCEPT ![s] = IdleFrame]
    /\ UNCHANGED <<now, start, calls, audit_dir, dirs, files, payload, executor,
                   storage, interceptors, init_raised, history>>
    /\ UNCHANGED otherVars

Tick ==
    /\ now < start + MaxTime
    /\ now' = now + 1
    /\ UNCHANGED <<start, calls, audit_dir, dirs, files, inv, payload, executor,
                   storage, interceptors, init_raised, history>>
    /\ UNCHANGED otherVars

Next ==
    \/ \E s \in Slots, mode \in Modes, input \in Inputs, uuid \in Uuid4Strs :
          Begin(s, mode, input, uuid)
    \/ \E s \in Slots, result \in Results, fault \in Faults : ToolReturn(s, result, fault)
    \/ \E s \in Slots, e \in Errors, fault \in Faults : ToolRaise(s, e, fault)
    \/ \E s \in Slots : Release(s)
    \/ Construct
    \/ Tick

Spec == Init /\ [][Next]_vars

(* ---------------------------- properties ------------------------------- *)
\* A frame whose call has gone through the Tool Executor and is over.
Completed(s) == inv[s].pc = "done" /\ inv[s].tool # "none"
\* The audit directory of the frame's path exists, so that the files can be
\* opened, and the call id can be sliced for the status line.
Writable(s) == CanOpen(dirs, inv[s].audit_file_path) /\ inv[s].fault = "none"
Printable(s) == CanPrint(inv[s].tool_call_id)

\* the lines of the summary file a frame's record goes to
SummaryLines(s) ==
    LET p == SummaryPath(inv[s].audit_file_path, now)
    IN IF p \in DOMAIN files THEN files[p] ELSE <<>>

\* C1: every call that went through the Tool Executor, returned or raised,
\* has persisted exactly one audit record: one write of the per-call file and
\* one summary line, both with the call's tool_call_id. (Failures of the
\* file system itself are set aside.)
C1_ExactlyOneRecord ==
    \A s \in Slots :
        (Completed(s) /\ Writable(s)) =>
            /\ inv[s].written = 1
            /\ inv[s].appended = 1
            /\ inv[s].record.tool_call_id = inv[s].tool_call_id
            /\ \E i \in DOMAIN SummaryLines(s) : SummaryLines(s)[i] = inv[s].record

\* C2: when the Tool Executor raised E, the call raises exactly E (same type,
\* same message) and the audit record has been written.
C2_SameErrorReraised ==
    \A s \in Slots :
        (Completed(s) /\ inv[s].tool = "raised" /\ Writable(s) /\ Printable(s)) =>
            /\ inv[s].outcome = "raised"
            /\ inv[s].raised = inv[s].tool_error
            /\ inv[s].written = 1

\* C3: an invoke and an ainvoke of the same payload, with the same Tool
\* Executor outcome, the same call id and the same audit path, give the caller
\* the same outcome and persist the same record.
C3_SyncAsyncSame ==
    \A a, b \in Slots :
        ( /\ Completed(a) /\ Completed(b)
          /\ inv[a].mode = "invoke" /\ inv[b].mode = "ainvoke"
          /\ inv[a].input = inv[b].input
          /\ inv[a].tool = inv[b].tool
          /\ inv[a].tool_result = inv[b].tool_result
          /\ inv[a].tool_error = inv[b].tool_error
          /\ inv[a].tool_call_id = inv[b].tool_call_id
          /\ inv[a].audit_file_path = inv[b].audit_file_path ) =>
            /\ inv[a].outcome = inv[b].outcome
            /\ inv[a].raised = inv[b].raised
            /\ inv[a].result = inv[b].result
            /\ inv[a].written = inv[b].written
            /\ inv[a].appended = inv[b].appended
            /\ inv[a].record.status = inv[b].record.status
            /\ inv[a].record.error = inv[b].record.error
            /\ inv[a].record.input = inv[b].record.input
            /\ inv[a].record.output = inv[b].record.output

\* C4: when the Tool Executor raised, the persisted record has status
\* "failed", error equal to str() of the raised error and output null.
C4_FailedRecord ==
    \A s \in Slots :
        (Completed(s) /\ inv[s].tool = "raised" /\ Writable(s)) =>
            /\ inv[s].written = 1
            /\ inv[s].record.status = "failed"
            /\ inv[s].record.error = Text(StrOf(inv[s].tool_error))
            /\ inv[s].record.output = None

\* C5: in every persisted record, status is "failed" exactly when error is
\* not null, and "success" otherwise.
C5_FailedIffError ==
    \A p \in DOMAIN files : \A i \in DOMAIN files[p] :
        /\ files[p][i].status \in {"failed", "success"}
        /\ files[p][i].status = "failed" <=> files[p][i].error # None

\* C6: every tool call of the payload that the Tool Executor executed has an
\* audit record of its own, written by the call.
C6_EveryCallAudited ==
    \A s \in Slots :
        (Completed(s) /\ inv[s].tool = "returned" /\ Writable(s)) =>
            /\ inv[s].appended >= Len(inv[s].executed)
            /\ \A i \in DOMAIN inv[s].executed :
                  \E j \in DOMAIN SummaryLines(s) :
                      /\ Some(SummaryLines(s)[j].tool_call_id) = inv[s].executed[i].id
                      /\ Some(SummaryLines(s)[j].tool_name) = inv[s].executed[i].name

\* the audit-path-reference line followed by the text s
WithReference(s, audit_file_path) ==
    Text(<<PathLabel>> \o extract_from_workspace(audit_file_path) \o <<"\n">> \o s)

\* C7: when the Tool Executor returned a plain string s, the caller gets the
\* audit-path-reference line followed by s.
C7_StringResultRewritten ==
    \A s \in Slots :
        ( /\ Completed(s) /\ inv[s].outcome = "returned"
          /\ inv[s].tool_result.shape = "value"
          /\ inv[s].tool_result.value.t = "str" ) =>
            inv[s].result =
                Value(WithReference(inv[s].tool_result.value.v, inv[s].audit_file_path))

\* the content of a result as the Tool Executor produced it, by result shape
ProducedContent(r) ==
    IF r.shape = "msg" THEN r.content
    ELSE IF r.shape = "dict" /\ r.hasmessages /\ Len(r.messages) > 0 /\ r.messages[1].ismsg
         THEN r.messages[1].content
    ELSE AsValue(r)

\* C8: for every successful call, the output field of the persisted record
\* is the content as the Tool Executor produced it, without the reference
\* line.
C8_OutputIsProducedContent ==
    \A s \in Slots :
        (Completed(s) /\ inv[s].tool = "returned" /\ inv[s].written = 1) =>
            inv[s].record.output = JsonDefaultStr(ProducedContent(inv[s].tool_result))

\* a result that is a mapping whose "messages" start with a message
FirstIsMessage(r) ==
    r.shape = "dict" /\ r.hasmessages /\ Len(r.messages) > 0 /\ r.messages[1].ismsg

\* C9: when the Tool Executor returned a mapping whose "messages" start with
\* a message, the result the call leaves differs from it in the content of
\* that first message only, which has the reference line in front when it is
\* text; the other messages and the other keys are as they were.
C9_OnlyFirstMessageRewritten ==
    \A s \in Slots :
        (Completed(s) /\ inv[s].tool = "returned" /\ FirstIsMessage(inv[s].tool_result)) =>
            LET o == inv[s].tool_result
                r == inv[s].result
            IN /\ r.shape = "dict" /\ r.hasmessages
               /\ r.other = o.other
               /\ r.content = o.content /\ r.value = o.value
               /\ Len(r.messages) = Len(o.messages)
               /\ \A i \in 2..Len(o.messages) : r.messages[i] = o.messages[i]
               /\ r.messages[1].ismsg
               /\ r.messages[1].content =
                     IF o.messages[1].content.t = "str"
                     THEN WithReference(o.messages[1].content.v, inv[s].audit_file_path)
                     ELSE o.messages[1].content

\* C9 witness: a call returned a mapping with two messages and a further key
\* to the caller, the first message's text rewritten.
C9_Witness ==
    \E s \in Slots :
        /\ Completed(s) /\ inv[s].outcome = "returned"
        /\ FirstIsMessage(inv[s].tool_result)
        /\ Len(inv[s].tool_result.messages) > 1
        /\ inv[s].tool_result.other # <<>>
        /\ inv[s].tool_result.messages[1].content.t = "str"
        /\ inv[s].result # inv[s].tool_result

\* a payload that carries no well-formed tool call
Malformed(input) ==
    \/ input = MappingInput(EmptyMapping)
    \/ input = ListInput(<<>>)
    \/ input = OtherInput
    \/ input.t = "list" /\ Len(input.items) > 0 /\ input.items[1].t # "dict"

\* C10: a malformed payload never makes the call raise while the tool call is
\* extracted; it resolves to the name "unknown", a generated id and empty
\* arguments.
C10_MalformedNeverRaises ==
    \A s \in Slots :
        (inv[s].pc # "idle" /\ Malformed(inv[s].input)) =>
            /\ ~(inv[s].pc = "done" /\ inv[s].tool = "none")
            /\ inv[s].tool_name = Unknown
            /\ inv[s].tool_args = EmptyArgs
            /\ \E u \in Uuid4Strs : inv[s].tool_call_id = Text(Prefix(u, 8))

\* a frame that has selected its tool call
Begun(s) == inv[s].pc # "idle"
\* a frame that has read name, id and arguments of its tool call
Extracted(s) == Begun(s) /\ HasGet(inv[s].tool_call)

\* C11: the audited tool call is selected by the shape of the payload: the
\* first element of a non-empty sequence; for a mapping with the key
\* tool_calls the first element of that sequence, or an empty mapping when it
\* is empty; otherwise the mapping itself.  The persisted record carries the
\* name and id of the selected call.
C11_SelectedByShape ==
    \A s \in Slots :
        Begun(s) =>
            LET in == inv[s].input
                tc == inv[s].tool_call
            IN /\ (in.t = "list" /\ in.items # <<>>) => tc = Head(in.items)
               /\ (in.t = "dict" /\ in.haskey /\ in.items # <<>>) => tc = Head(in.items)
               /\ (in.t = "dict" /\ in.haskey /\ in.items = <<>>) => tc = EmptyMapping
               /\ (in.t = "dict" /\ ~in.haskey) => tc = in.call
               /\ (inv[s].written = 1 /\ tc.name # Absent) =>
                      inv[s].record.tool_name = tc.name[1]
               /\ (inv[s].written = 1 /\ tc.id # Absent) =>
                      inv[s].record.tool_call_id = tc.id[1]

\* C11 witness: a record is written for the first of two different tool
\* calls of a sequence.
C11_Witness ==
    \E s \in Slots :
        /\ inv[s].written = 1
        /\ inv[s].input.t = "list"
        /\ Len(inv[s].input.items) = 2
        /\ inv[s].input.items[1] # inv[s].input.items[2]
        /\ Some(inv[s].record.tool_name) = inv[s].input.items[1].name

\* C12: tool_call_id is the caller's id whenever the selected tool call has
\* one, and otherwise the first 8 characters of a generated uuid; tool_name is
\* "unknown" and the arguments are the empty mapping when the tool call does
\* not have them; the persisted record carries these values.
C12_IdNameArgsDefaults ==
    \A s \in Slots :
        Extracted(s) =>
            LET tc == inv[s].tool_call
                id == inv[s].tool_call_id
            IN /\ tc.id # Absent => id = tc.id[1]
               /\ tc.id = Absent =>
                     /\ id.t = "str"
                     /\ Len(id.v) = 8
                     /\ \E u \in Uuid4Strs : \A i \in 1..8 : id.v[i] = u[i]
               /\ tc.name = Absent => inv[s].tool_name = Unknown
               /\ tc.name # Absent => inv[s].tool_name = tc.name[1]
               /\ tc.args = Absent => inv[s].tool_args = EmptyArgs
               /\ tc.args # Absent => inv[s].tool_args = tc.args[1]
               /\ inv[s].written = 1 =>
                     /\ inv[s].record.tool_call_id = id
                     /\ inv[s].record.tool_name = inv[s].tool_name
                     /\ inv[s].record.input = inv[s].tool_args

\* C12 witness: a record is written for a tool call without id, name and
\* arguments.
C12_Witness ==
    \E s \in Slots :
        /\ inv[s].written = 1
        /\ inv[s].tool_call = EmptyMapping
        /\ Len(inv[s].record.tool_call_id.v) = 8
        /\ inv[s].record.tool_name = Unknown
        /\ inv[s].record.input = EmptyArgs

\* C13: within one call the audit path is computed before the wrapped call
\* is delegated, and the record is built and written (the per-call file, then
\* the summary line) only after the wrapped call has returned or raised:
\* while the wrapped call runs the call has written nothing.
C13_PathBeforeWriteAfter ==
    \A s \in Slots :
        /\ inv[s].delegated = 1 =>
              inv[s].audit_file_path =
                  audit_dir \o <<"/", HHMMSS(inv[s].start_time), "_">>
                            \o inv[s].tool_name \o <<".json">>
        /\ inv[s].pc = "running" =>
              /\ inv[s].delegated = 1
              /\ inv[s].tool = "none"
              /\ inv[s].attempts = 0
              /\ inv[s].written = 0 /\ inv[s].appended = 0
              /\ inv[s].record = NoRecord
        /\ (inv[s].attempts > 0 \/ inv[s].written > 0 \/ inv[s].appended > 0) =>
              /\ inv[s].tool # "none"
              /\ inv[s].pc = "done"
        /\ inv[s].written = 1 => inv[s].record.timestamp >= inv[s].start_time
        /\ inv[s].appended = 1 => inv[s].written = 1

\* C13 witness: a record written in a later second than the one its path was
\* computed in.
C13_Witness ==
    \E s \in Slots :
        /\ inv[s].pc = "done"
        /\ inv[s].written = 1 /\ inv[s].appended = 1
        /\ Second(inv[s].record.timestamp) > Second(inv[s].start_time)
        /\ inv[s].audit_file_path \in DOMAIN files

\* the summary file of the audit directory for the day of the clock
DailySummary ==
    LET p == audit_dir \o <<"/", "summary_", YYYYMMDD(now), ".jsonl">>
    IN IF p \in DOMAIN files THEN files[p] ELSE <<>>

\* C14: after any sequence of completed calls within one day the daily
\* summary holds exactly one line per call, in completion order.  (Calls whose
\* files cannot be opened and behaviours with a failing storage are set
\* aside.)
C14_OneLinePerCallInOrder ==
    ( /\ storage = "sound"
      /\ \A i \in DOMAIN history : CanOpen(dirs, history[i].audit_file_path) ) =>
        /\ Len(DailySummary) = Len(history)
        /\ \A i \in DOMAIN history :
              /\ DailySummary[i].tool_call_id = history[i].tool_call_id
              /\ DailySummary[i] = history[i].record

\* The summary file only grows at its end: no line is changed or removed.
SummaryAppendOnly ==
    [][\A p \in DOMAIN files :
          /\ p \in DOMAIN files'
          /\ (p[Len(p)] = ".jsonl" =>
                /\ Len(files'[p]) >= Len(files[p])
                /\ SubSeq(files'[p], 1, Len(files[p])) = files[p])]_vars

\* the calls of the history that wrote their per-call file
Writers == {i \in DOMAIN history : history[i].written = 1}
\* the last call of the history that wrote the per-call file p
LastWriter(p) ==
    CHOOSE i \in Writers :
        /\ history[i].audit_file_path = p
        /\ \A j \in Writers : history[j].audit_file_path = p => j <= i
\* the path is shared by i and j, and the file holds the record written last
Collide(i, j) ==
    /\ history[i].audit_file_path = history[j].audit_file_path
    /\ history[j].audit_file_path \in DOMAIN files
    /\ files[history[j].audit_file_path] =
          <<history[LastWriter(history[j].audit_file_path)].record>>

\* C15 as stated: two calls of the same tool name that complete within the
\* same wall-clock second write the same per-call path, the later write
\* replacing the earlier one.
C15_SameCompletionSecond ==
    \A i, j \in Writers :
        ( /\ i < j
          /\ history[i].tool_name = history[j].tool_name
          /\ Second(history[i].record.timestamp) = Second(history[j].record.timestamp) ) =>
            Collide(i, j)

\* C15 amended: two calls of the same tool name that start within the same
\* wall-clock second have the same per-call path, and when both write their
\* record the file holds the record written last (nothing keeps the calls
\* apart: they may run at the same time).
C15_SameStartSecond ==
    \A i, j \in Writers :
        ( /\ i < j
          /\ history[i].tool_name = history[j].tool_name
          /\ Second(history[i].start_time) = Second(history[j].start_time) ) =>
            Collide(i, j)

\* C15 witness: two calls of the same tool run at the same time (the second
\* starts before the first completes), start in the same second, and the
\* record of the first is gone from the per-call file.
C15_Witness ==
    \E i, j \in Writers :
        /\ i < j
        /\ history[i].tool_name = history[j].tool_name
        /\ Second(history[i].start_time) = Second(history[j].start_time)
        /\ history[j].start_time < history[i].record.timestamp
        /\ history[i].record # history[j].record
        /\ files[history[i].audit_file_path] = <<history[j].record>>

\* C16: the per-call path is {audit_dir}/{HHMMSS}_{tool_name}.json with
\* HHMMSS the second the call started in; it depends on nothing else (not on
\* the call id, the arguments or the completion time), so calls with equal
\* tool name and equal start second have equal paths.
C16_PathFromNameAndStartSecond ==
    /\ \A i \in DOMAIN history :
          history[i].audit_file_path =
              audit_dir \o <<"/", HHMMSS(history[i].start_time), "_">>
                        \o history[i].tool_name \o <<".json">>
    /\ \A i, j \in DOMAIN history :
          ( /\ history[i].tool_name = history[j].tool_name
            /\ Second(history[i].start_time) = Second(history[j].start_time) ) =>
              history[i].audit_file_path = history[j].audit_file_path
    /\ \A s \in Slots : \A i \in DOMAIN history :
          ( /\ inv[s].delegated = 1
            /\ inv[s].tool_name = history[i].tool_name
            /\ Second(inv[s].start_time) = Second(history[i].start_time) ) =>
              inv[s].audit_file_path = history[i].audit_file_path

\* C16 witness: two calls with different ids, different start ticks of one
\* second and different completion times have the same path.
C16_Witness ==
    \E i, j \in DOMAIN history :
        /\ history[i].tool_call_id # history[j].tool_call_id
        /\ history[i].start_time # history[j].start_time
        /\ history[i].written = 1 /\ history[j].written = 1
        /\ Second(history[i].record.timestamp) # Second(history[j].record.timestamp)
        /\ history[i].audit_file_path = history[j].audit_file_path

\* C17: an error of the write of the per-call file or of the append of the
\* summary line leaves the call as its error; the write was attempted once,
\* and a call whose tool had returned raises the error of the write instead
\* of returning the result.
C17_WriteErrorPropagates ==
    \A s \in Slots :
        (inv[s].pc = "done" /\ inv[s].write_error # NoError) =>
            /\ inv[s].outcome = "raised"
            /\ inv[s].raised = inv[s].write_error
            /\ inv[s].attempts = 1
            /\ inv[s].fault = "write" => inv[s].written = 0
            /\ inv[s].appended = 0

\* C17 witness: the tool returned, the append of the summary line failed and
\* the call raised OSError.
C17_Witness ==
    \E s \in Slots :
        /\ inv[s].pc = "done" /\ inv[s].tool = "returned"
        /\ inv[s].fault = "append" /\ inv[s].write_error = OSError
        /\ inv[s].outcome = "raised" /\ inv[s].raised = OSError

\* the lines of the summary file of today
LinesOf(fs) ==
    LET p == audit_dir \o <<"/", "summary_", YYYYMMDD(now), ".jsonl">>
    IN IF p \in DOMAIN fs THEN fs[p] ELSE <<>>

\* C18: the two writes are not one transaction: a call interrupted between
\* them has replaced its per-call file and has left the summary as it was.
C18_NotTransactional ==
    [][\A s \in Slots :
          ( /\ inv[s].pc = "running" /\ inv'[s].pc = "done"
            /\ inv'[s].fault = "append" ) =>
              /\ inv'[s].written = 1 /\ inv'[s].appended = 0
              /\ files'[inv'[s].audit_file_path] = <<inv'[s].record>>
              /\ LinesOf(files') = LinesOf(files)]_vars

\* C18 witness: after an interruption between the two writes the per-call
\* file holds a record with no summary line, and the summary holds a line of
\* an earlier call whose per-call file is gone.
C18_Witness ==
    \E i, j \in DOMAIN history :
        /\ i < j
        /\ history[i].appended = 1
        /\ history[j].written = 1 /\ history[j].appended = 0
        /\ history[i].audit_file_path = history[j].audit_file_path
        /\ history[i].record # history[j].record
        /\ files[history[j].audit_file_path] = <<history[j].record>>
        /\ DailySummary = <<history[i].record>>

\* C19: every call of invoke/ainvoke that has ended has handed its input,
\* unmodified, to the Tool Executor exactly once.
C19_DelegatesExactlyOnce ==
    \A s \in Slots :
        inv[s].pc = "done" =>
            /\ inv[s].delegated = 1
            /\ inv[s].delegated_input = inv[s].input
            /\ inv[s].tool # "none"

\* C20: constructing an interceptor never raises, whether the audit
\* directory exists or not; afterwards the directory and its parents exist,
\* no directory is lost and every file is as it was.
C20_ConstructIdempotent ==
    [][/\ init_raised' = NoError
       /\ (interceptors' # interceptors) =>
             /\ interceptors' = interceptors + 1
             /\ WithParents(audit_dir) \subseteq dirs'
             /\ dirs \subseteq dirs'
             /\ interceptors >= 1 => dirs' = dirs
             /\ files' = files]_vars

\* C20 witness: a second interceptor was constructed on the directory that
\* held the audit file of a call made with the first one, and the file is
\* as that call wrote it.
C20_Witness ==
    /\ interceptors = 2
    /\ init_raised = NoError
    /\ \E i \in DOMAIN history :
          /\ history[i].interceptors = 1
          /\ history[i].written = 1
          /\ files[history[i].audit_file_path] = <<history[i].record>>

(* ---------------------------- the two static methods -------------------- *)
\* Every audit variable at rest, for the specifications of the other parts.
AuditIdle ==
    /\ start = 0 /\ now = 0 /\ calls = 0
    /\ audit_dir = WorkspaceAuditDir
    /\ dirs = {Root} /\ files = NoFiles
    /\ inv = [s \in Slots |-> IdleFrame]
    /\ payload = OtherInput /\ executor = Returns(Value(FiveResults))
    /\ storage = "sound"
    /\ interceptors = 0 /\ init_raised = NoError
    /\ history = <<>>

\* contents a result can carry
Contents ==
    {None, FiveResults, Text(<<>>), PyList(<<"block">>), PyDict(<<"k", "v">>),
     PyInt(<<"0">>), PyObject(<<"Command()">>)}

\* tool names a payload can carry, some with a line break
ToolNames ==
    {Search, Escaping, <<"a", "\n", "b">>, <<"ls", "\n">>, <<"\n", "workspace">>,
     <<"workspace">>}

\* the paths _generate_audit_file_path gives for them, and two other strings
RewritePaths ==
    {_generate_audit_file_path(d, n, t) : d \in AuditDirs, n \in ToolNames, t \in 0..MaxTime}
    \cup {<<"/", "home", "/", "workspace", "/", "x", "\n">>, <<"relative", "/", "path">>}

InitRewrite ==
    /\ AuditIdle
    /\ SessionIdle
    /\ RedisIdle
    /\ rw_content \in Contents
    /\ rw_path \in RewritePaths
    /\ rw_attached = NotYet
    /\ rw_extracted = NotYet

\* SimpleAuditToolNode._attach_audit_file_path(rw_content, rw_path)
Attach ==
    /\ rw_attached = NotYet
    /\ rw_attached' = _attach_audit_file_path(rw_content, rw_path)
    /\ UNCHANGED <<auditVars, sessionVars, redisVars, rw_content, rw_path, rw_extracted>>

\* SimpleAuditToolNode.extract_from_workspace(rw_path)
Extract ==
    /\ rw_extracted = NotYet
    /\ rw_extracted' = Text(extract_from_workspace(rw_path))
    /\ UNCHANGED <<auditVars, sessionVars, redisVars, rw_content, rw_path, rw_attached>>

NextRewrite ==
    \/ Attach
    \/ Extract

SpecRewrite == InitRewrite /\ [][NextRewrite]_vars

RECURSIVE FirstMarker(_, _)
FirstMarker(p, i) ==
    IF i > Len(p) THEN 0 ELSE IF p[i] = "workspace" THEN i ELSE FirstMarker(p, i + 1)

\* C22: extract_from_workspace returns the path from the first occurrence of
\* the marker to the end of the string, and the placeholder when the marker
\* does not occur.
C22_SuffixFromFirstMarker ==
    rw_extracted # NotYet =>
        LET i == FirstMarker(rw_path, 1)
        IN rw_extracted = IF i = 0 THEN Text(<<Placeholder>>)
                          ELSE Text(SubSeq(rw_path, i, Len(rw_path)))

\* Where the path has no line break the extraction is that suffix.
C22_SuffixOnOneLine ==
    (rw_extracted # NotYet /\ \A k \in DOMAIN rw_path : rw_path[k] # "\n") =>
        LET i == FirstMarker(rw_path, 1)
        IN rw_extracted = IF i = 0 THEN Text(<<Placeholder>>)
                          ELSE Text(SubSeq(rw_path, i, Len(rw_path)))

\* C23: printing the status line changes nothing of what the call gives its
\* caller: whatever the type of the call id, a call whose record was written
\* returns when its tool returned and raises its tool's error when its tool
\* raised.
C23_StatusLineChangesNothing ==
    \A s \in Slots :
        ( /\ Completed(s)
          /\ inv[s].attempts = 1
          /\ inv[s].write_error = NoError ) =>
            /\ inv[s].tool = "returned" => inv[s].outcome = "returned"
            /\ inv[s].tool = "raised" =>
                  inv[s].outcome = "raised" /\ inv[s].raised = inv[s].tool_error

\* With a call id that can be sliced the status line changes nothing.
C23_SliceableIdChangesNothing ==
    \A s \in Slots :
        ( /\ Completed(s)
          /\ inv[s].attempts = 1
          /\ inv[s].write_error = NoError
          /\ Printable(s) ) =>
            /\ inv[s].tool = "returned" => inv[s].outcome = "returned"
            /\ inv[s].tool = "raised" =>
                  inv[s].outcome = "raised" /\ inv[s].raised = inv[s].tool_error

\* C24: whatever the tool name, path separators and `..` included, every
\* per-call file that is written lies directly in the audit directory, and
\* every summary line goes to summary_{YYYYMMDD}.jsonl of that directory; a
\* tool name with a path separator gets nothing written.
C24_FilesInsideAuditDir ==
    /\ \A p \in DOMAIN files : Parent(p) = audit_dir
    /\ \A i \in DOMAIN history :
          /\ history[i].written = 1 =>
                /\ Parent(history[i].audit_file_path) = audit_dir
                /\ history[i].audit_file_path \in DOMAIN files
          /\ history[i].appended = 1 =>
                (audit_dir \o <<"/", "summary_", YYYYMMDD(history[i].record.timestamp),
                                ".jsonl">>) \in DOMAIN files
          /\ (\E k \in DOMAIN history[i].tool_name : history[i].tool_name[k] = "/") =>
                history[i].written = 0 /\ history[i].appended = 0

\* C24 witness: a call of a tool whose name holds `..` and a path separator
\* went through the tool and ended with FileNotFoundError, no file written.
C24_Witness ==
    \E s \in Slots :
        /\ inv[s].pc = "done"
        /\ inv[s].tool_name = Escaping
        /\ inv[s].tool = "returned"
        /\ inv[s].raised = FileNotFoundError
        /\ inv[s].written = 0
        /\ DOMAIN files = {}

(* ---------------------------- the interactive loop ---------------------- *)
\* str.strip() and str.lower() on an input of word and blank tokens
RECURSIVE LStrip(_)
LStrip(text) ==
    IF text = <<>> THEN <<>> ELSE IF Head(text) = " " THEN LStrip(Tail(text)) ELSE text
RECURSIVE RStrip(_)
RStrip(text) ==
    IF text = <<>> THEN <<>>
    ELSE IF text[Len(text)] = " " THEN RStrip(SubSeq(text, 1, Len(text) - 1)) ELSE text
Strip(text) == RStrip(LStrip(text))
LowerToken(c) ==
    CASE c = "QUIT" -> "quit"
      [] c = "Reset" -> "reset"
      [] OTHER -> c
Lower(text) == [i \in DOMAIN text |-> LowerToken(text[i])]

\* `not user_input or not user_input.strip()`
Blank(text) == text = <<>> \/ Strip(text) = <<>>
ExitCommands == {<<"/exit">>, <<"exit">>, <<"quit">>, <<"q">>}
ResetCommands == {<<"/reset">>, <<"reset">>}

\* what the user may type
UserInputs ==
    {<<>>, <<" ">>, <<"/exit">>, <<"exit">>, <<"quit">>, <<"q">>, <<"/reset">>,
     <<"reset">>, <<"QUIT">>, <<" ", "exit", " ">>, <<"Reset">>, <<"hello">>,
     <<"exit", " ", "now">>}
\* input() ends with EOFError or KeyboardInterrupt
ReadErrors == {Error("EOFError", <<>>, TRUE), Error("KeyboardInterrupt", <<>>, FALSE)}

\* the slip of an agent input that forgets the persisted messages
AgentInputFresh(state, text) ==
    [messages |-> <<HumanMessage(text)>>, files |-> state.files, todos |-> state.todos]

\* agent_input: the persisted messages followed by the new user message
AgentInput(state, text) ==
    [messages |-> state.messages.v \o <<HumanMessage(text)>>,
     files |-> state.files, todos |-> state.todos]

\* what the agent may stream
AgentSays == Chunk("agent", NodeState(Some(PyList(<<AIMessage(Text(<<"hi">>))>>)), Absent, Absent))
AgentFiles ==
    Chunk("agent", NodeState(Some(PyList(<<>>)), Some(PyDict(<<"report.md">>)),
                             Some(PyList(<<"todo">>))))
ToolsSay == Chunk("tools", NodeState(Some(PyList(<<AIMessage(Text(<<"5 results">>))>>)), Absent, Absent))
AgentNone == Chunk("agent", None)
AgentNoContent == Chunk("agent", NodeState(Some(PyList(<<AIMessage(None)>>)), Absent, Absent))
AgentChunks == {AgentSays, AgentFiles, ToolsSay, AgentNone, AgentNoContent, NotAMappingChunk}
\* what agent.astream may raise
AgentErrors ==
    {Error("ValueError", <<"boom">>, TRUE),
     Error("AttributeError", <<"'str' object has no attribute 'model_dump'">>, TRUE),
     Error("CancelledError", <<>>, FALSE)}

\* preview_content_async raises: content.items() of a chunk that is no
\* mapping, content[:300] of a last message whose content is None
PreviewRaises(chunk) ==
    \/ chunk.t # "dict"
    \/ /\ chunk.state.t = "dict"
       /\ Truthy(Get(chunk.state.messages, None))
       /\ LET msgs == chunk.state.messages[1].v IN msgs[Len(msgs)].content = None

\* the slip of `except BaseException`
CaughtAlways(e) == TRUE

\* `except Exception as e`
Caught(e) == e.isexc

\* the slip of an update that takes the messages whenever the key is there
_update_state_overwriting(state, event) ==
    IF event.type # "step" THEN state
    ELSE LET data == event.data
             agent_state == IF data.t = "dict" /\ data.node = "agent" THEN data.state ELSE None
         IN IF agent_state.t # "dict" THEN state
            ELSE [messages |-> IF agent_state.messages # Absent
                               THEN agent_state.messages[1] ELSE state.messages,
                  files |-> IF Get(agent_state.files, None).t # "none"
                            THEN agent_state.files[1] ELSE state.files,
                  todos |-> IF Get(agent_state.todos, None).t # "none"
                            THEN agent_state.todos[1] ELSE state.todos]

\* _update_state_from_last_result(persisted_state, last_result): the
\* persisted state afterwards
_update_state_from_last_result(state, event) ==
    IF event.type = "none" THEN state
    ELSE IF event.type # "step" THEN state
    ELSE LET data == event.data
             agent_state == IF data.t = "dict" /\ data.node = "agent" THEN data.state ELSE None
         IN IF agent_state.t # "dict" THEN state
            ELSE [messages |-> IF Truthy(Get(agent_state.messages, None))
                               THEN agent_state.messages[1] ELSE state.messages,
                  files |-> IF Get(agent_state.files, None).t # "none"
                            THEN agent_state.files[1] ELSE state.files,
                  todos |-> IF Get(agent_state.todos, None).t # "none"
                            THEN agent_state.todos[1] ELSE state.todos]

InitSession ==
    /\ AuditIdle
    /\ RewriteIdle
    /\ RedisIdle
    /\ persisted_state = build_initial_state
    /\ loop_pc = "reading" /\ loop_raised = NoError
    /\ user_input = <<>> /\ turns = 0
    /\ agent_input = NoAgentInput /\ agent_runs = 0
    /\ agent_stream = AgentOpen /\ chunks = <<>> /\ events = <<>>
    /\ step_counter = 0 /\ last_result = NoEvent /\ returned_result = NoEvent

\* interactive_loop reads text: a blank input is skipped, an exit command
\* ends the loop, a reset command resets the state, anything else starts a
\* turn of local_async_streaming with the agent input.
ReadInput(text) ==
    /\ loop_pc = "reading"
    /\ turns < MaxTurns
    /\ turns' = turns + 1
    /\ user_input' = text
    /\ LET cmd == Lower(Strip(text)) IN
       IF Blank(text)
       THEN UNCHANGED <<persisted_state, loop_pc, agent_input, agent_runs, streamVars>>
       ELSE IF cmd \in ExitCommands
       THEN /\ loop_pc' = "ended"
            /\ UNCHANGED <<persisted_state, agent_input, agent_runs, streamVars>>
       ELSE IF cmd \in ResetCommands
       THEN /\ persisted_state' = build_initial_state
            /\ UNCHANGED <<loop_pc, agent_input, agent_runs, streamVars>>
       ELSE /\ agent_input' = AgentInput(persisted_state, text)
            /\ agent_runs' = agent_runs + 1
            /\ loop_pc' = "streaming"
            /\ agent_stream' = AgentOpen /\ chunks' = <<>> /\ events' = <<>>
            /\ step_counter' = 0 /\ last_result' = NoEvent
            /\ returned_result' = Streaming
            /\ UNCHANGED persisted_state
    /\ UNCHANGED <<auditVars, rewriteVars, redisVars, loop_raised>>

\* read_user_input raises EOFError or KeyboardInterrupt: the loop ends.
ReadInterrupted(e) ==
    /\ loop_pc = "reading"
    /\ loop_pc' = "ended"
    /\ UNCHANGED <<auditVars, rewriteVars, redisVars, persisted_state, loop_raised, user_input,
                   turns, agent_input, agent_runs, streamVars>>

\* local_async_streaming returns ret to the loop, which updates the state
EndTurn(ret) ==
    /\ returned_result' = ret
    /\ persisted_state' = _update_state_from_last_result(persisted_state, ret)
    /\ loop_pc' = "reading"

\* The agent streams a chunk: stream_with_progress yields its step event and
\* local_async_streaming previews it; a preview that raises ends the turn
\* with None.
AgentYields(chunk) ==
    /\ loop_pc = "streaming"
    /\ Len(chunks) < MaxChunks
    /\ chunks' = Append(chunks, chunk)
    /\ events' = Append(events, StepEvent(chunk))
    /\ last_result' = StepEvent(chunk)
    /\ step_counter' = step_counter + 1
    /\ IF PreviewRaises(chunk)
       THEN EndTurn(NoEvent)
       ELSE UNCHANGED <<persisted_state, loop_pc, returned_result>>
    /\ UNCHANGED <<auditVars, rewriteVars, redisVars, loop_raised, user_input, turns,
                   agent_input, agent_runs, agent_stream>>

\* The agent's stream ends: the summary is printed and the last event is
\* returned.
AgentEnds ==
    /\ loop_pc = "streaming"
    /\ agent_stream' = [status |-> "ended", error |-> NoError]
    /\ EndTurn(last_result)
    /\ UNCHANGED <<auditVars, rewriteVars, redisVars, loop_raised, user_input, turns,
                   agent_input, agent_runs, chunks, events, step_counter, last_result>>

\* The agent's stream raises e: an Exception becomes the error event, at
\* which local_async_streaming stops; anything else leaves
\* stream_with_progress, local_async_streaming and interactive_loop.
AgentRaises(e) ==
    /\ loop_pc = "streaming"
    /\ agent_stream' = [status |-> "raised", error |-> e]
    /\ IF Caught(e)
       THEN /\ events' = Append(events, ErrorEvent(e))
            /\ last_result' = ErrorEvent(e)
            /\ EndTurn(ErrorEvent(e))
            /\ UNCHANGED loop_raised
       ELSE /\ loop_pc' = "ended"
            /\ loop_raised' = e
            /\ UNCHANGED <<events, last_result, returned_result, persisted_state>>
    /\ UNCHANGED <<auditVars, rewriteVars, redisVars, user_input, turns, agent_input,
                   agent_runs, chunks, step_counter>>

NextSession ==
    \/ \E text \in UserInputs : ReadInput(text)
    \/ \E e \in ReadErrors : ReadInterrupted(e)
    \/ \E chunk \in AgentChunks : AgentYields(chunk)
    \/ AgentEnds
    \/ \E e \in AgentErrors : AgentRaises(e)

SpecSession == InitSession /\ [][NextSession]_vars

\* C25: the events of a turn are the step events of the agent's chunks, in
\* the agent's order; when the agent's stream raises, one error event
\* follows them as the last event, nothing is raised to the consumer, and
\* local_async_streaming returns that error event.
C25_RaiseBecomesErrorEvent ==
    /\ \A i \in DOMAIN chunks : i \in DOMAIN events /\ events[i] = StepEvent(chunks[i])
    /\ agent_stream.status # "raised" => Len(events) = Len(chunks)
    /\ agent_stream.status = "raised" =>
          /\ Len(events) = Len(chunks) + 1
          /\ events[Len(events)] = ErrorEvent(agent_stream.error)
          /\ loop_raised = NoError
          /\ returned_result = ErrorEvent(agent_stream.error)

\* C25, amended: the same for an agent stream that raises an Exception; an
\* error that is no Exception (asyncio.CancelledError, KeyboardInterrupt)
\* yields no error event and is raised to the consumer, and
\* local_async_streaming does not return.
C25_ExceptionBecomesErrorEvent ==
    /\ \A i \in DOMAIN chunks : i \in DOMAIN events /\ events[i] = StepEvent(chunks[i])
    /\ agent_stream.status # "raised" => Len(events) = Len(chunks)
    /\ (agent_stream.status = "raised" /\ agent_stream.error.isexc) =>
          /\ Len(events) = Len(chunks) + 1
          /\ events[Len(events)] = ErrorEvent(agent_stream.error)
          /\ loop_raised = NoError
          /\ returned_result = ErrorEvent(agent_stream.error)
    /\ (agent_stream.status = "raised" /\ ~agent_stream.error.isexc) =>
          /\ Len(events) = Len(chunks)
          /\ loop_raised = agent_stream.error
          /\ returned_result = Streaming
          /\ loop_pc = "ended"

\* C25 witness: the agent streamed two chunks and raised ValueError; the
\* turn returned the error event, the third and last event.
C25_Witness ==
    /\ Len(chunks) = 2
    /\ agent_stream = [status |-> "raised", error |-> Error("ValueError", <<"boom">>, TRUE)]
    /\ Len(events) = 3
    /\ events[3].type = "error" /\ events[3].error = <<"boom">>
    /\ returned_result = events[3]
    /\ loop_pc = "reading"

\* the event is a step whose data holds a mapping under the key agent
AgentStep(ev) ==
    /\ ev.type = "step"
    /\ ev.data.t = "dict" /\ ev.data.node = "agent"
    /\ ev.data.state.t = "dict"

\* C26: at the end of a turn the persisted state changes only when the last
\* result is a step event whose data holds a mapping under `agent`; after
\* None, an error event or a step of another node it is as before, without
\* the turn's user message; and an empty `messages` list of the agent leaves
\* the persisted messages as they were.
C26_StateChangesOnlyFromAgentStep ==
    [][(loop_pc = "streaming" /\ loop_pc' = "reading") =>
          /\ ~AgentStep(returned_result') => persisted_state' = persisted_state
          /\ AgentStep(returned_result') =>
                IF Truthy(Get(returned_result'.data.state.messages, None))
                THEN persisted_state'.messages = returned_result'.data.state.messages[1]
                ELSE persisted_state'.messages = persisted_state.messages]_vars

\* C26 witness: the persisted messages of an earlier turn are still there
\* after a turn whose last step reported an empty `messages` list together
\* with files and todos, which were taken.
C26_Witness ==
    /\ loop_pc = "reading"
    /\ returned_result = StepEvent(AgentFiles)
    /\ persisted_state.messages = PyList(<<AIMessage(Text(<<"hi">>))>>)
    /\ persisted_state.files = PyDict(<<"report.md">>)

\* the loop reads an input in this step
ReadStep == loop_pc = "reading" /\ turns' = turns + 1
\* the loop meets end-of-input or an interrupt in this step
InterruptStep == loop_pc = "reading" /\ turns' = turns /\ loop_pc' = "ended"
NoRun == agent_runs' = agent_runs /\ agent_input' = agent_input
\* the agent is run once with the persisted messages and the new message
RunsOnce ==
    /\ agent_runs' = agent_runs + 1
    /\ agent_input'.messages = persisted_state.messages.v \o <<HumanMessage(user_input')>>
    /\ loop_pc' = "streaming"
    /\ persisted_state' = persisted_state

\* C27: `/reset` or `reset` sets the persisted state to the initial state
\* and does not run the agent; `/exit`, `exit`, `quit`, `q`, end-of-input or
\* an interrupt end the loop without running the agent; a blank input runs
\* nothing and changes nothing; every other input runs the agent exactly
\* once with the persisted messages followed by the new user message.
C27_CommandsAsTyped ==
    [][/\ ReadStep =>
             IF user_input' \in {<<"/reset">>, <<"reset">>}
             THEN /\ persisted_state' = [messages |-> PyList(<<>>), files |-> PyDict(<<>>),
                                         todos |-> PyList(<<>>)]
                  /\ NoRun /\ loop_pc' = "reading"
             ELSE IF user_input' \in {<<"/exit">>, <<"exit">>, <<"quit">>, <<"q">>}
             THEN loop_pc' = "ended" /\ NoRun /\ persisted_state' = persisted_state
             ELSE IF \A k \in DOMAIN user_input' : user_input'[k] = " "
             THEN loop_pc' = "reading" /\ NoRun /\ persisted_state' = persisted_state
             ELSE RunsOnce
       /\ InterruptStep => NoRun /\ persisted_state' = persisted_state
       /\ agent_runs' # agent_runs => ReadStep]_vars

\* C27, amended: the commands are recognised after the input is stripped of
\* surrounding blanks and put in lower case, so that `QUIT` or ` exit ` end
\* the loop and `Reset` resets the state; the agent is run with the input as
\* it was typed.
C27_CommandsStrippedLowered ==
    [][/\ ReadStep =>
             IF \A k \in DOMAIN user_input' : user_input'[k] = " "
             THEN loop_pc' = "reading" /\ NoRun /\ persisted_state' = persisted_state
             ELSE IF Lower(Strip(user_input')) \in {<<"/reset">>, <<"reset">>}
             THEN /\ persisted_state' = [messages |-> PyList(<<>>), files |-> PyDict(<<>>),
                                         todos |-> PyList(<<>>)]
                  /\ NoRun /\ loop_pc' = "reading"
             ELSE IF Lower(Strip(user_input')) \in {<<"/exit">>, <<"exit">>, <<"quit">>, <<"q">>}
             THEN loop_pc' = "ended" /\ NoRun /\ persisted_state' = persisted_state
             ELSE RunsOnce
       /\ InterruptStep => NoRun /\ persisted_state' = persisted_state
       /\ agent_runs' # agent_runs => ReadStep]_vars

\* C27 witness: in the second turn the agent was run with the message kept
\* from the first turn followed by the new user message.
C27_Witness ==
    /\ agent_runs = 2
    /\ loop_pc = "streaming"
    /\ user_input = <<"exit", " ", "now">>
    /\ agent_input.messages =
           <<AIMessage(Text(<<"hi">>)), HumanMessage(<<"exit", " ", "now">>)>>

(* ---------------------------- RedisClient ------------------------------- *)
DataOperations ==
    {"get", "set", "delete", "exists", "expire", "ttl", "incr", "decr", "keys",
     "flushdb", "ping"}

\* what each operation returns from its `except redis.RedisError`
FailureValue(op) ==
    CASE op = "get" -> None
      [] op = "set" -> False
      [] op = "delete" -> PyInt(<<"0">>)
      [] op = "exists" -> PyInt(<<"0">>)
      [] op = "expire" -> False
      [] op = "ttl" -> PyInt(<<"-2">>)
      [] op = "incr" -> None
      [] op = "decr" -> None
      [] op = "keys" -> PyList(<<>>)
      [] op = "flushdb" -> False
      [] op = "ping" -> False

\* what each operation may return when redis answers
SuccessValues(op) ==
    CASE op = "get" -> {Text(<<"bar">>), None}
      [] op = "set" -> {True, False}
      [] op = "delete" -> {PyInt(<<"1">>), PyInt(<<"0">>)}
      [] op = "exists" -> {PyInt(<<"1">>), PyInt(<<"0">>)}
      [] op = "expire" -> {True, False}
      [] op = "ttl" -> {PyInt(<<"60">>), PyInt(<<"-1">>), PyInt(<<"-2">>)}
      [] op = "incr" -> {PyInt(<<"1">>)}
      [] op = "decr" -> {PyInt(<<"-1">>)}
      [] op = "keys" -> {PyList(<<"foo">>), PyList(<<>>)}
      [] op = "flushdb" -> {True}
      [] op = "ping" -> {True}

\* _connect(): _client is bound to the new redis.Redis before the ping, whose
\* RedisError is raised again
_connect(pingok) ==
    [client |-> "Redis", raised |-> IF pingok THEN NoError ELSE RedisError]

\* the client property: _connect() when _client is falsy
client(c, pingok) ==
    IF c = "None"
    THEN [client |-> _connect(pingok).client, raised |-> _connect(pingok).raised,
          connected |-> TRUE]
    ELSE [client |-> c, raised |-> NoError, connected |-> FALSE]

InitRedis ==
    /\ AuditIdle
    /\ RewriteIdle
    /\ SessionIdle
    /\ RedisIdle

\* RedisClient(url): _client = None, then _connect(); its RedisError leaves
\* the constructor.
RedisConstruct(pingok) ==
    /\ rc_built = "no"
    /\ _client' = _connect(pingok).client
    /\ rc_connects' = rc_connects + 1
    /\ rc_built' = IF pingok THEN "yes" ELSE "failed"
    /\ rc_last' = Ended("construct", "__init__", None, _connect(pingok).raised,
                        ~pingok, TRUE, FALSE)
    /\ UNCHANGED <<auditVars, rewriteVars, sessionVars, rc_closed, rc_ops>>

\* get, set, ..., ping: the client property and the command run inside the
\* try block; a RedisError of either gives the failure value.
DataOp(op, pingok, cmdok, val) ==
    /\ rc_built = "yes"
    /\ rc_ops < MaxOps
    /\ val \in SuccessValues(op)
    /\ LET c == client(_client, pingok)
           failed == c.raised # NoError \/ ~cmdok
       IN /\ _client' = c.client
          /\ rc_connects' = IF c.connected THEN rc_connects + 1 ELSE rc_connects
          /\ rc_last' = Ended("data", op, IF failed THEN FailureValue(op) ELSE val,
                              NoError, failed, c.connected, rc_closed)
    /\ rc_ops' = rc_ops + 1
    /\ rc_closed' = FALSE
    /\ UNCHANGED <<auditVars, rewriteVars, sessionVars, rc_built>>

\* pipeline(): the client property is read outside the try block, and a
\* RedisError of the body or of execute() is raised again.
Pipeline(pingok, bodyok) ==
    /\ rc_built = "yes"
    /\ rc_ops < MaxOps
    /\ LET c == client(_client, pingok)
           failed == c.raised # NoError \/ ~bodyok
       IN /\ _client' = c.client
          /\ rc_connects' = IF c.connected THEN rc_connects + 1 ELSE rc_connects
          /\ rc_last' = Ended("pipeline", "pipeline", None,
                              IF failed THEN RedisError ELSE NoError,
                              failed, c.connected, rc_closed)
    /\ rc_ops' = rc_ops + 1
    /\ rc_closed' = FALSE
    /\ UNCHANGED <<auditVars, rewriteVars, sessionVars, rc_built>>

\* close(): _client is set to None after the client was closed; a RedisError
\* of the closing is logged and leaves _client as it is.
Close(closeok) ==
    /\ rc_built = "yes"
    /\ _client' = IF _client # "None" /\ closeok THEN "None" ELSE _client
    /\ rc_closed' = TRUE
    /\ rc_last' = Ended("close", "close", None, NoError,
                        _client # "None" /\ ~closeok, FALSE, FALSE)
    /\ UNCHANGED <<auditVars, rewriteVars, sessionVars, rc_built, rc_ops, rc_connects>>

NextRedis ==
    \/ \E pingok \in BOOLEAN : RedisConstruct(pingok)
    \/ \E op \in DataOperations, pingok \in BOOLEAN, cmdok \in BOOLEAN,
          val \in UNION {SuccessValues(o) : o \in DataOperations} :
          DataOp(op, pingok, cmdok, val)
    \/ \E pingok \in BOOLEAN, bodyok \in BOOLEAN : Pipeline(pingok, bodyok)
    \/ \E closeok \in BOOLEAN : Close(closeok)

SpecRedis == InitRedis /\ [][NextRedis]_vars

\* C28: a data operation never raises; when redis raised in it, also in the
\* lazy reconnect, it returns its failure value; only the constructor and
\* pipeline() raise; and the first operation after close() has returned
\* reconnects before it runs.
C28_NeverRaisesAndReconnects ==
    /\ rc_last.kind = "data" =>
          /\ rc_last.raised = NoError
          /\ rc_last.failed => rc_last.value = FailureValue(rc_last.name)
    /\ rc_last.raised # NoError => rc_last.kind \in {"construct", "pipeline"}
    /\ (rc_last.kind \in {"data", "pipeline"} /\ rc_last.after_close) =>
          rc_last.connected

\* The part about errors alone: data operations return their failure value
\* and only the constructor and pipeline() raise.
C28_DataOperationsNeverRaise ==
    /\ rc_last.kind = "data" =>
          /\ rc_last.raised = NoError
          /\ rc_last.failed => rc_last.value = FailureValue(rc_last.name)
    /\ rc_last.raised # NoError => rc_last.kind \in {"construct", "pipeline"}

====
